---- MODULE Spec2Model ----
(***************************************************************************)
(* Model of edtech_digest.py: the fetch / synthesize / quality-check /     *)
(* theme / deliver pipeline run by main(), and the pure functions it uses. *)
(*                                                                         *)
(* Encoding of Python values                                               *)
(*   str       a sequence of runs [w |-> <<chars>>, n |-> k]: the text is  *)
(*             the chunk w repeated k times, runs concatenated.  Text(s)   *)
(*             is the character sequence; every string operation below is  *)
(*             computed on Text(s), character by character.                *)
(*   Optional  None is <<>>, a value v is <<v>>.                           *)
(*   short messages (error reasons, theme) are TLA+ strings.               *)
(***************************************************************************)
EXTENDS Integers, Sequences, FiniteSets, TLC

VARIABLES
    urls,                \* ARTICLE_URLS
    API_KEY,             \* Optional: os.environ.get("ANTHROPIC_API_KEY")
    GMAIL_APP_PASSWORD,  \* Optional: os.environ.get("GMAIL_APP_PASSWORD")
    pc,                  \* position of main() (or of the function under test)
    idx,                 \* position of the for loop of fetch_all_articles
    articles,            \* fetch_all_articles: articles
    failed,              \* fetch_all_articles: failed
    digest,              \* main: digest (Optional until synthesized)
    passed,              \* main: passed
    issues,              \* main: issues
    theme,               \* main: theme (Optional until extracted)
    email_sent,          \* main: email_sent (Optional until send_email returns)
    raised,              \* the exception that left main uncaught, or "none"
    stages,              \* history: the stages of the run, in order of entry
    calls,               \* history: the functions main has invoked, in order
    net,                 \* history: the network actions performed, in order
    console              \* history: what print() has written that carries data

vars == <<urls, API_KEY, GMAIL_APP_PASSWORD, pc, idx, articles, failed, digest,
          passed, issues, theme, email_sent, raised, stages, calls, net, console>>

----------------------------------------------------------------------------
(* Bounds of the model *)

MaxUrls == 2        \* longest URL list
MaxArticles == 5    \* most articles handed to check_digest_quality on its own
MaxCites == 3       \* most citation words put into a generated digest

(* Program constants *)

MinWords == 400
MaxWords == 700
CitationBar == 3
PreviewLen == 500
ContentCap == 5000

----------------------------------------------------------------------------
(* Python values *)

None == <<>>
Some(v) == <<v>>
Min(a, b) == IF a < b THEN a ELSE b

\* truthiness of an Optional[str] holding a short message: None and '' are falsy
Truthy(opt) == opt # None /\ opt[1] # ""

\* the character sequence of a str
RECURSIVE Text(_)
Text(s) ==
    IF s = <<>> THEN <<>>
    ELSE LET r == Head(s)
             k == Len(r.w)
         IN  [i \in 1..(r.n * k) |-> r.w[((i - 1) % k) + 1]] \o Text(Tail(s))

Plain(chars) == <<[w |-> chars, n |-> 1]>>
Take(t, k) == SubSeq(t, 1, Min(k, Len(t)))

Whitespace == {" ", "\n", "\t"}

UpperAlphabet == <<"A","B","C","D","E","F","G","H","I","J","K","L","M",
                   "N","O","P","Q","R","S","T","U","V","W","X","Y","Z">>
LowerAlphabet == <<"a","b","c","d","e","f","g","h","i","j","k","l","m",
                   "n","o","p","q","r","s","t","u","v","w","x","y","z">>

\* str.lower() on one character
LowerOf == [c \in {UpperAlphabet[k] : k \in 1..26} |->
               LowerAlphabet[CHOOSE k \in 1..26 : UpperAlphabet[k] = c]]
LowerChar(c) == IF c \in DOMAIN LowerOf THEN LowerOf[c] ELSE c

\* str.lower()
Lower(t) == [i \in 1..Len(t) |-> LowerChar(t[i])]

\* t (of length m) occurs in s at position i
OccursAt(s, t, m, i) == \A j \in 1..m : s[i + j - 1] = t[j]

\* t in s
Contains(s, t) ==
    LET n == Len(s)
        m == Len(t)
    IN  \E i \in 1..(n - m + 1) : OccursAt(s, t, m, i)

\* s.count(t): occurrences found left to right, the search resuming after
\* each occurrence found (non-overlapping)
RECURSIVE CountFrom(_, _, _)
CountFrom(s, t, from) ==
    LET n == Len(s)
        m == Len(t)
        hits == {i \in from..(n - m + 1) : OccursAt(s, t, m, i)}
    IN  IF hits = {} THEN 0
        ELSE LET first == CHOOSE i \in hits : \A j \in hits : i <= j
             IN  1 + CountFrom(s, t, first + m)

Count(s, t) == CountFrom(s, t, 1)

\* len(s.split()): the number of maximal runs of non-whitespace characters,
\* counted at the character that starts each run
SplitLen(s) ==
    Cardinality({i \in 1..Len(s) :
        /\ s[i] \notin Whitespace
        /\ (i = 1 \/ s[i - 1] \in Whitespace)})

----------------------------------------------------------------------------
(* check_digest_quality *)

HTTP == <<"h","t","t","p">>

placeholders == <<
    <<"[","A","R","T","I","C","L","E","]">>,
    <<"[","I","N","S","E","R","T","]">>,
    <<"[","T","O","D","O","]">>,
    <<"P","L","A","C","E","H","O","L","D","E","R">> >>

WordCountIssue(word_count) == <<"Word count out of range", word_count>>
CitationIssue(citation_count, bar) == <<"Too few citations", citation_count, bar>>
PlaceholderIssue(k) == <<"Contains placeholder text", k>>

\* Check 1: Length
LengthCheck(text) ==
    LET word_count == SplitLen(text)
    IN  IF word_count < MinWords \/ word_count > MaxWords
        THEN <<WordCountIssue(word_count)>> ELSE <<>>

\* Check 2: Citations present
CitationCheck(text, arts) ==
    LET citation_count == Count(text, HTTP)
        bar == Min(CitationBar, Len(arts))
    IN  IF citation_count < bar
        THEN <<CitationIssue(citation_count, bar)>> ELSE <<>>

\* Check 3: No placeholder text (the for loop, from its k-th iteration on)
RECURSIVE PlaceholderCheck(_, _)
PlaceholderCheck(text, k) ==
    IF k > Len(placeholders) THEN <<>>
    ELSE (IF Contains(Lower(text), Lower(placeholders[k]))
          THEN <<PlaceholderIssue(k)>> ELSE <<>>)
         \o PlaceholderCheck(text, k + 1)

check_digest_quality_strict(d, arts) ==
    LET text == Text(d)
        word_count == SplitLen(text)
        found == (IF word_count <= MinWords \/ word_count >= MaxWords
                  THEN <<WordCountIssue(word_count)>> ELSE <<>>)
                 \o CitationCheck(text, arts)
                 \o PlaceholderCheck(text, 1)
    IN  [passed |-> Len(found) = 0, issues |-> found]

check_digest_quality_first_only(d, arts) ==
    LET text == Text(d)
        all == LengthCheck(text) \o CitationCheck(text, arts)
                 \o PlaceholderCheck(text, 1)
        found == IF all = <<>> THEN <<>> ELSE <<Head(all)>>
    IN  [passed |-> Len(found) = 0, issues |-> found]

check_digest_quality(d, arts) ==
    LET text == Text(d)
        found == LengthCheck(text) \o CitationCheck(text, arts)
                 \o PlaceholderCheck(text, 1)
    IN  [passed |-> Len(found) = 0, issues |-> found]

----------------------------------------------------------------------------
(* fetch_article, fetch_all_articles *)

Urls == {"u1", "u2"}

\* what requests.get / raise_for_status can do for one URL: a response body
\* (len(response.text) characters long), a timeout, an HTTP status error, or
\* any other exception, whose str() may be empty
FetchOutcomes ==
    {[kind |-> "ok", len |-> ContentCap + 1]}
    \cup {[kind |-> "Timeout"]}
    \cup {[kind |-> "HTTPError", status |-> 404]}
    \cup {[kind |-> "Exception", msg |-> m] : m \in {"", "Connection refused"}}

\* content is kept as its length: response.text[:5000]
fetch_article(url, o) ==
    CASE o.kind = "ok" ->
            [url |-> url, content |-> Some(Min(o.len, ContentCap)), error |-> None]
      [] o.kind = "Timeout" ->
            [url |-> url, content |-> None, error |-> Some("Timeout")]
      [] o.kind = "HTTPError" ->
            [url |-> url, content |-> None,
             error |-> Some("HTTP " \o ToString(o.status))]
      [] o.kind = "Exception" ->
            [url |-> url, content |-> None, error |-> Some(o.msg)]

\* one iteration of the for loop of fetch_all_articles
FetchNext_retry ==
    /\ pc = "Fetching"
    /\ idx <= Len(urls)
    /\ \E o \in FetchOutcomes :
          LET result == fetch_article(urls[idx], o)
          IN  /\ IF Truthy(result.error)
                 THEN /\ failed' = Append(failed, result)
                      /\ idx' = idx
                      /\ UNCHANGED articles
                 ELSE /\ articles' = Append(articles, result)
                      /\ idx' = idx + 1
                      /\ UNCHANGED failed
              /\ calls' = Append(calls, <<"fetch_article", idx>>)
              /\ net' = Append(net, <<"GET", urls[idx]>>)
    /\ UNCHANGED <<urls, API_KEY, GMAIL_APP_PASSWORD, pc, digest, passed, issues,
                   theme, email_sent, raised, stages, console>>

FetchNext_prepend ==
    /\ pc = "Fetching"
    /\ idx <= Len(urls)
    /\ \E o \in FetchOutcomes :
          LET result == fetch_article(urls[idx], o)
          IN  /\ IF Truthy(result.error)
                 THEN failed' = <<result>> \o failed /\ UNCHANGED articles
                 ELSE articles' = Append(articles, result) /\ UNCHANGED failed
              /\ calls' = Append(calls, <<"fetch_article", idx>>)
              /\ net' = Append(net, <<"GET", urls[idx]>>)
    /\ idx' = idx + 1
    /\ UNCHANGED <<urls, API_KEY, GMAIL_APP_PASSWORD, pc, digest, passed, issues,
                   theme, email_sent, raised, stages, console>>

FetchNext ==
    /\ pc = "Fetching"
    /\ idx <= Len(urls)
    /\ \E o \in FetchOutcomes :
          LET result == fetch_article(urls[idx], o)
          IN  /\ IF Truthy(result.error)
                 THEN failed' = Append(failed, result) /\ UNCHANGED articles
                 ELSE articles' = Append(articles, result) /\ UNCHANGED failed
              /\ calls' = Append(calls, <<"fetch_article", idx>>)
              /\ net' = Append(net, <<"GET", urls[idx]>>)
    /\ idx' = idx + 1
    /\ UNCHANGED <<urls, API_KEY, GMAIL_APP_PASSWORD, pc, digest, passed, issues,
                   theme, email_sent, raised, stages, console>>

----------------------------------------------------------------------------
(* Generated digests *)

CiteWord == <<"(","h","t","t","p","s",":","/","/","e",".","d","u",")">>
DoubleCite == <<"h","t","t","p",":","/","/","a","/","?","u","=","h","t","t","p",":","/","/","b">>
UpperCite == <<"H","T","T","P",":","/","/","E",".","D","U">>
Capitalised == <<"P","l","a","c","e","h","o","l","d","e","r">>
LowerTodo == <<"[","t","o","d","o","]",".">>
Embedded == <<"r","e","[","I","n","s","e","r","t","]","e","d">>

\* a digest of `total` words: `cites` citation words, each ending a paragraph,
\* then the words of `special`, one per line, then filler words
MkDigest(total, cites, special) ==
    <<[w |-> CiteWord \o <<"\n", "\n">>, n |-> cites]>>
    \o [k \in 1..Len(special) |-> [w |-> special[k] \o <<"\n">>, n |-> 1]]
    \o <<[w |-> <<"w", " ">>, n |-> total - cites - Len(special)]>>

\* the forbidden tokens of S as they are spelt in the list, last one first
RECURSIVE TokenWords(_, _)
TokenWords(S, k) ==
    IF k = 0 THEN <<>>
    ELSE (IF k \in S THEN <<placeholders[k]>> ELSE <<>>) \o TokenWords(S, k - 1)

SpecialWords ==
    {TokenWords(S, Len(placeholders)) : S \in SUBSET (1..Len(placeholders))}
    \cup {<<Capitalised>>, <<LowerTodo>>, <<Embedded>>, <<DoubleCite>>, <<UpperCite>>}

\* the digests check_digest_quality is applied to on its own: short ones with
\* every combination of citations and forbidden tokens, and ones at and
\* around the word-count limits
Digests ==
    {MkDigest(t, c, sp) : <<t, c, sp>> \in
        {x \in {0, 8} \X (0..MaxCites) \X SpecialWords :
            x[1] >= x[2] + Len(x[3])}}
    \cup
    {MkDigest(t, c, sp) : <<t, c, sp>> \in
        {MinWords - 1, MinWords, 500, MaxWords, MaxWords + 1}
        \X (0..MaxCites)
        \X {<<>>, <<Capitalised>>, <<DoubleCite>>,
            TokenWords(1..Len(placeholders), Len(placeholders))}}

\* the texts the synthesis call returns in a run of main
MainDigests ==
    { MkDigest(MinWords, 4, <<>>),
      MkDigest(MinWords - 1, 1, <<Capitalised>>),
      MkDigest(3, 3, <<>>) }

StubArticle == [url |-> "u1", content |-> Some(0), error |-> None]

----------------------------------------------------------------------------
(* synthesize_digest, extract_key_theme, send_email: what they return or raise *)

NoExc == "none"
ApiKeyError == "ValueError: ANTHROPIC_API_KEY not set"
GmailPasswordError == "ValueError: GMAIL_APP_PASSWORD not set"
ConfigErrors == {ApiKeyError, GmailPasswordError}

\* client.messages.create either returns a text or raises
SynthesisOutcomes ==
    {[kind |-> "APIError"]} \cup {[kind |-> "text", text |-> d] : d \in MainDigests}

ThemeOutcomes ==
    {[kind |-> "APIError"],
     [kind |-> "text", lead |-> " ", body |-> "AI Policy Shifts", trail |-> "\n"]}

\* message.content[0].text.strip()
Strip(o) == o.body

\* the SMTP session: SMTP_SSL(...), login, send_message
SmtpOutcomes == {"sent", "SMTPAuthenticationError", "OSError"}

\* the try/except of send_email: [ret |-> returned value, exc |-> raised exception]
send_email_try_auth_only(o) ==
    CASE o = "sent" -> [ret |-> Some(TRUE), exc |-> NoExc]
      [] o = "SMTPAuthenticationError" -> [ret |-> Some(FALSE), exc |-> NoExc]
      [] OTHER -> [ret |-> None, exc |-> o]

send_email_try(o) ==
    CASE o = "sent" -> [ret |-> Some(TRUE), exc |-> NoExc]
      [] o = "SMTPAuthenticationError" -> [ret |-> Some(FALSE), exc |-> NoExc]
      [] OTHER -> [ret |-> Some(FALSE), exc |-> NoExc]

Subject(t) == <<"Weekly EdTech Digest: ", t>>

----------------------------------------------------------------------------
(* main *)

Stages == <<"Fetching", "Synthesizing", "QualityChecking", "ThemeExtraction",
            "Delivering">>
Terminal == {"EmptyAbort", "RejectedAbort", "Sent", "FailedButGenerated", "Raised"}

UrlLists == UNION {[1..n -> Urls] : n \in 0..MaxUrls}

Init ==
    /\ urls \in UrlLists
    /\ API_KEY \in {None, Some("sk-ant")}
    /\ GMAIL_APP_PASSWORD \in {None, Some("app-password")}
    /\ pc = "Fetching"
    /\ idx = 1
    /\ articles = <<>>
    /\ failed = <<>>
    /\ digest = None
    /\ passed = None
    /\ issues = <<>>
    /\ theme = None
    /\ email_sent = None
    /\ raised = NoExc
    /\ stages = <<"Fetching">>
    /\ calls = <<>>
    /\ net = <<>>
    /\ console = <<>>

\* lines 307-315: fetch_all_articles has returned; no article ends the run
FetchReturn ==
    /\ pc = "Fetching"
    /\ idx > Len(urls)
    /\ IF Len(articles) = 0
       THEN /\ pc' = "EmptyAbort"
            /\ console' = Append(console, <<"error", "No articles fetched">>)
       ELSE /\ pc' = "Synthesizing"
            /\ UNCHANGED console
    /\ UNCHANGED <<urls, API_KEY, GMAIL_APP_PASSWORD, idx, articles, failed, digest,
                   passed, issues, theme, email_sent, raised, stages, calls, net>>

\* line 317 with 115-116: synthesize_digest called, the key is missing
SynthesizeNoKey ==
    /\ pc = "Synthesizing"
    /\ ~Truthy(API_KEY)
    /\ stages' = Append(stages, "Synthesizing")
    /\ calls' = Append(calls, <<"synthesize_digest", Len(articles)>>)
    /\ raised' = ApiKeyError
    /\ pc' = "Raised"
    /\ UNCHANGED <<urls, API_KEY, GMAIL_APP_PASSWORD, idx, articles, failed, digest,
                   passed, issues, theme, email_sent, net, console>>

\* line 317 with 118-158: synthesize_digest called, one generative call
Synthesize ==
    /\ pc = "Synthesizing"
    /\ Truthy(API_KEY)
    /\ stages' = Append(stages, "Synthesizing")
    /\ calls' = Append(calls, <<"synthesize_digest", Len(articles)>>)
    /\ net' = Append(net, <<"messages.create", "synthesis">>)
    /\ \E o \in SynthesisOutcomes :
          IF o.kind = "text"
          THEN /\ digest' = Some(o.text)
               /\ pc' = "QualityChecking"
               /\ UNCHANGED raised
          ELSE /\ raised' = o.kind
               /\ pc' = "Raised"
               /\ UNCHANGED digest
    /\ UNCHANGED <<urls, API_KEY, GMAIL_APP_PASSWORD, idx, articles, failed,
                   passed, issues, theme, email_sent, console>>

\* print(digest[:500] + "...")
Preview(d) == Plain(Take(Text(d), PreviewLen) \o <<".", ".", ".">>)

IssueLines(iss) == [k \in 1..Len(iss) |-> <<"issue", iss[k]>>]

\* lines 319-334: the quality gate and the branch on its result
QualityCheck_ignore_result ==
    /\ pc = "QualityChecking"
    /\ LET r == check_digest_quality(digest[1], articles)
       IN  /\ passed' = Some(r.passed)
           /\ issues' = r.issues
           /\ pc' = "ThemeExtraction"
           /\ UNCHANGED console
    /\ stages' = Append(stages, "QualityChecking")
    /\ calls' = Append(calls, <<"check_digest_quality">>)
    /\ UNCHANGED <<urls, API_KEY, GMAIL_APP_PASSWORD, idx, articles, failed, digest,
                   theme, email_sent, raised, net>>

QualityCheck ==
    /\ pc = "QualityChecking"
    /\ LET r == check_digest_quality(digest[1], articles)
       IN  /\ passed' = Some(r.passed)
           /\ issues' = r.issues
           /\ IF ~r.passed
              THEN /\ console' = console \o IssueLines(r.issues)
                                    \o <<<<"preview", Preview(digest[1])>>>>
                   /\ pc' = "RejectedAbort"
              ELSE /\ pc' = "ThemeExtraction"
                   /\ UNCHANGED console
    /\ stages' = Append(stages, "QualityChecking")
    /\ calls' = Append(calls, <<"check_digest_quality">>)
    /\ UNCHANGED <<urls, API_KEY, GMAIL_APP_PASSWORD, idx, articles, failed, digest,
                   theme, email_sent, raised, net>>

\* lines 336-339 with 199-223: extract_key_theme
ExtractTheme ==
    /\ pc = "ThemeExtraction"
    /\ stages' = Append(stages, "ThemeExtraction")
    /\ calls' = Append(calls, <<"extract_key_theme">>)
    /\ IF ~Truthy(API_KEY)
       THEN /\ theme' = Some("Weekly Update")
            /\ pc' = "Delivering"
            /\ UNCHANGED <<net, raised>>
       ELSE /\ net' = Append(net, <<"messages.create", "theme">>)
            /\ \E o \in ThemeOutcomes :
                  IF o.kind = "text"
                  THEN /\ theme' = Some(Strip(o))
                       /\ pc' = "Delivering"
                       /\ UNCHANGED raised
                  ELSE /\ raised' = o.kind
                       /\ pc' = "Raised"
                       /\ UNCHANGED theme
    /\ UNCHANGED <<urls, API_KEY, GMAIL_APP_PASSWORD, idx, articles, failed, digest,
                   passed, issues, email_sent, console>>

\* lines 341-342 with 240-241: send_email called, the app password is missing
SendNoPassword ==
    /\ pc = "Delivering"
    /\ ~Truthy(GMAIL_APP_PASSWORD)
    /\ stages' = Append(stages, "Delivering")
    /\ calls' = Append(calls, <<"send_email">>)
    /\ raised' = GmailPasswordError
    /\ pc' = "Raised"
    /\ UNCHANGED <<urls, API_KEY, GMAIL_APP_PASSWORD, idx, articles, failed, digest,
                   passed, issues, theme, email_sent, net, console>>

\* lines 341-360 with 243-292: send_email over one SMTP session, then the
\* success summary or the fallback that prints the digest
Send ==
    /\ pc = "Delivering"
    /\ Truthy(GMAIL_APP_PASSWORD)
    /\ stages' = Append(stages, "Delivering")
    /\ calls' = Append(calls, <<"send_email">>)
    /\ \E o \in SmtpOutcomes :
          LET r == send_email_try(o)
          IN  /\ net' = Append(net, <<"SMTP_SSL", o, Subject(theme[1])>>)
              /\ IF r.exc # NoExc
                 THEN /\ raised' = r.exc
                      /\ pc' = "Raised"
                      /\ UNCHANGED <<email_sent, console>>
                 ELSE /\ email_sent' = r.ret
                      /\ UNCHANGED raised
                      /\ IF r.ret[1]
                         THEN /\ pc' = "Sent"
                              /\ console' = Append(console,
                                    <<"summary", Subject(theme[1]),
                                      SplitLen(Text(digest[1])),
                                      Count(Text(digest[1]), HTTP)>>)
                         ELSE /\ pc' = "FailedButGenerated"
                              /\ console' = Append(console, <<"digest", digest[1]>>)
    /\ UNCHANGED <<urls, API_KEY, GMAIL_APP_PASSWORD, idx, articles, failed, digest,
                   passed, issues, theme>>

Next ==
    \/ FetchNext
    \/ FetchReturn
    \/ SynthesizeNoKey
    \/ Synthesize
    \/ QualityCheck
    \/ ExtractTheme
    \/ SendNoPassword
    \/ Send

Spec == Init /\ [][Next]_vars

----------------------------------------------------------------------------
(* check_digest_quality on its own: the inputs are drawn, the function applied *)

InitQuality ==
    /\ urls = <<>>
    /\ API_KEY = None
    /\ GMAIL_APP_PASSWORD = None
    /\ pc = "call"
    /\ idx = 1
    /\ articles \in {[k \in 1..n |-> StubArticle] : n \in 0..MaxArticles}
    /\ failed = <<>>
    /\ digest \in {Some(d) : d \in Digests}
    /\ passed = None
    /\ issues = <<>>
    /\ theme = None
    /\ email_sent = None
    /\ raised = NoExc
    /\ stages = <<>>
    /\ calls = <<>>
    /\ net = <<>>
    /\ console = <<>>

ApplyQuality ==
    /\ pc = "call"
    /\ LET r == check_digest_quality(digest[1], articles)
       IN  passed' = Some(r.passed) /\ issues' = r.issues
    /\ pc' = "return"
    /\ UNCHANGED <<urls, API_KEY, GMAIL_APP_PASSWORD, idx, articles, failed, digest,
                   theme, email_sent, raised, stages, calls, net, console>>

NextQuality == ApplyQuality

SpecQuality == InitQuality /\ [][NextQuality]_vars

----------------------------------------------------------------------------
(* Vocabulary of the properties *)

Range(q) == {q[k] : k \in 1..Len(q)}
Occurrences(q, x) == Cardinality({k \in 1..Len(q) : q[k] = x})
LastOf(q) == q[Len(q)]

\* the elements of q at the positions of S, in the order of q
RECURSIVE Pick(_, _, _)
Pick(q, S, k) ==
    IF k > Len(q) THEN <<>>
    ELSE (IF k \in S THEN <<q[k]>> ELSE <<>>) \o Pick(q, S, k + 1)

UrlsOf(results) == [k \in 1..Len(results) |-> results[k].url]

Fetched == 1..(idx - 1)
FetchingOver == idx > Len(urls)
Generated == digest # None

PrintedDigest ==
    \E k \in 1..Len(console) :
        console[k][1] = "digest" /\ Text(console[k][2]) = Text(digest[1])

PrintedPreview ==
    \E k \in 1..Len(console) :
        /\ console[k][1] = "preview"
        /\ Text(console[k][2])
             = Take(Text(digest[1]), PreviewLen) \o <<".", ".", ".">>

PrintedIssues ==
    [k \in 1..Len(issues) |-> <<"issue", issues[k]>>]
        = SubSeq(console, 1, Len(issues))

----------------------------------------------------------------------------
(* C1: the stages of a run are entered in the order Fetching, Synthesizing,  *)
(* QualityChecking, ThemeExtraction, Delivering, none twice and none after a *)
(* later one; every position of the URL list is fetched at most once, and    *)
(* exactly once when fetching is over; synthesis, quality check, theme call  *)
(* and delivery are each invoked at most once.                               *)
C1_StagesInOrderNoRetry ==
    /\ Len(stages) <= Len(Stages)
    /\ stages = SubSeq(Stages, 1, Len(stages))
    /\ \A p \in 1..Len(urls) :
          /\ Occurrences(calls, <<"fetch_article", p>>) <= 1
          /\ FetchingOver => Occurrences(calls, <<"fetch_article", p>>) = 1
    /\ \A u \in Urls :
          Occurrences(net, <<"GET", u>>)
             = Cardinality({p \in Fetched : urls[p] = u})
    /\ \A f \in {"synthesize_digest", "check_digest_quality",
                 "extract_key_theme", "send_email"} :
          Cardinality({k \in 1..Len(calls) : calls[k][1] = f}) <= 1
    /\ Occurrences(net, <<"messages.create", "synthesis">>) <= 1
    /\ Occurrences(net, <<"messages.create", "theme">>) <= 1
    /\ Cardinality({k \in 1..Len(net) : net[k][1] = "SMTP_SSL"}) <= 1

\* a run that failed one fetch out of two and still went through every stage
C1_Witness ==
    /\ pc = "FailedButGenerated"
    /\ Len(urls) = 2
    /\ Len(failed) = 1
    /\ Len(stages) = Len(Stages)

(* C2: if every URL of the list failed to fetch, the run ends in Empty-abort *)
(* and synthesize_digest, check_digest_quality, extract_key_theme and        *)
(* send_email are never invoked.                                             *)
C2_AllFailedEndsEmptyAbort ==
    (/\ FetchingOver
     /\ pc \in Terminal
     /\ \A r \in Range(articles) \cup Range(failed) : r.content = None)
    => /\ pc = "EmptyAbort"
       /\ \A k \in 1..Len(calls) : calls[k][1] = "fetch_article"

(* C3: extract_key_theme and send_email are invoked only after the quality   *)
(* gate passed; when it fails the run ends in Rejected-abort with no theme   *)
(* call and no delivery attempt, and the console holds every issue of the    *)
(* report followed by the first 500 characters of the digest.                *)
C3_GateGuardsThemeAndDelivery ==
    /\ (\E k \in 1..Len(calls) : calls[k][1] \in {"extract_key_theme", "send_email"})
          => passed = Some(TRUE)
    /\ pc = "RejectedAbort" <=> passed = Some(FALSE)
    /\ passed = Some(FALSE) =>
          /\ issues # <<>>
          /\ LastOf(calls) = <<"check_digest_quality">>
          /\ \A k \in 1..Len(net) : net[k][1] \notin {"SMTP_SSL"}
          /\ <<"messages.create", "theme">> \notin Range(net)
          /\ PrintedIssues
          /\ Len(console) = Len(issues) + 1
          /\ PrintedPreview

\* a rejected digest longer than the preview, with more than one issue
C3_Witness ==
    /\ pc = "RejectedAbort"
    /\ Len(issues) >= 2
    /\ Len(Text(digest[1])) > PreviewLen

(* C4: with the app password configured, once send_email is called no fault  *)
(* of the SMTP session leaves main as an exception: every fault returns      *)
(* False, the run ends in Failed-but-generated with the whole digest text    *)
(* printed, and it ends in Sent exactly when send_email returned True.       *)
C4_DeliveryFaultsReturnFalse ==
    (<<"send_email">> \in Range(calls) /\ Truthy(GMAIL_APP_PASSWORD)) =>
        /\ raised = NoExc
        /\ LastOf(net)[1] = "SMTP_SSL"
        /\ email_sent = Some(LastOf(net)[2] = "sent")
        /\ pc = "Sent" <=> email_sent = Some(TRUE)
        /\ pc = "FailedButGenerated" <=> email_sent = Some(FALSE)
        /\ email_sent = Some(FALSE) => PrintedDigest

\* a delivery that failed on a fault other than authentication
C4_Witness ==
    /\ pc = "FailedButGenerated"
    /\ LastOf(net)[2] = "OSError"
    /\ PrintedDigest

(* C5: every run that generated a digest and has ended, normally or by an    *)
(* uncaught exception, has sent the digest or printed its text or preview.   *)
C5_GeneratedDigestNeverLost ==
    (Generated /\ pc \in Terminal) =>
        \/ pc = "Sent"
        \/ PrintedDigest
        \/ PrintedPreview

(* C6: a configuration error (missing API key, missing app password) is      *)
(* raised before any network action of the run: no URL fetch, no generative  *)
(* call, no SMTP session.                                                    *)
C6_ConfigErrorBeforeNetwork ==
    raised \in ConfigErrors => net = <<>>

C10_ListsMatchOutcome ==
    /\ \A r \in Range(articles) : r.content # None /\ r.error = None
    /\ \A r \in Range(failed) : r.error # None /\ r.content = None

----------------------------------------------------------------------------
(* The quality rules as the specification words them, computed without the   *)
(* operators check_digest_quality is modelled with                           *)

ForbiddenTokens == <<
    <<"[","a","r","t","i","c","l","e","]">>,
    <<"[","i","n","s","e","r","t","]">>,
    <<"[","t","o","d","o","]">>,
    <<"p","l","a","c","e","h","o","l","d","e","r">> >>

\* each letter's counterpart in the other case
OtherCase ==
    [c \in {UpperAlphabet[k] : k \in 1..26} \cup {LowerAlphabet[k] : k \in 1..26} |->
        LET k == CHOOSE k \in 1..26 : c \in {UpperAlphabet[k], LowerAlphabet[k]}
        IN  IF c = UpperAlphabet[k] THEN LowerAlphabet[k] ELSE UpperAlphabet[k]]

\* the same letter, in either case
SameLetter(a, b) == a = b \/ (a \in DOMAIN OtherCase /\ OtherCase[a] = b)

\* words, counted at the character that ends each one
Words(t) ==
    LET n == Len(t)
    IN  Cardinality({i \in 1..n :
            /\ t[i] \notin Whitespace
            /\ (i = n \/ t[i + 1] \in Whitespace)})

\* positions at which "http" occurs
HttpOccurrences(t) ==
    LET n == Len(t)
    IN  Cardinality({i \in 1..(n - 3) :
            t[i] = "h" /\ t[i + 1] = "t" /\ t[i + 2] = "t" /\ t[i + 3] = "p"})

HasToken(t, k) ==
    LET n == Len(t)
        m == Len(ForbiddenTokens[k])
    IN  \E i \in 1..(n - m + 1) :
            \A j \in 1..m : SameLetter(t[i + j - 1], ForbiddenTokens[k][j])

LengthViolated(t) == ~(MinWords <= Words(t) /\ Words(t) <= MaxWords)
CitationViolated(t, n) == ~(HttpOccurrences(t) >= Min(CitationBar, n))
TokensPresent(t) == {k \in 1..Len(ForbiddenTokens) : HasToken(t, k)}

IssueRank(i) ==
    CASE i[1] = "Word count out of range" -> 1
      [] i[1] = "Too few citations" -> 2
      [] i[1] = "Contains placeholder text" -> 2 + i[2]

Returned == pc = "return"

(* C8: check_digest_quality returns passed = true exactly when the word      *)
(* count is within 400..700 inclusive, "http" occurs at least                *)
(* min(3, len(articles)) times, and none of the four forbidden tokens occurs *)
(* in the digest in any letter case.                                         *)
C8_PassedIffAllThreeHold ==
    Returned =>
        LET t == Text(digest[1])
        IN  passed[1] <=> /\ ~LengthViolated(t)
                          /\ ~CitationViolated(t, Len(articles))
                          /\ TokensPresent(t) = {}

\* a digest of exactly 700 words citing once, for a single article, passes
C8_Witness ==
    /\ Returned
    /\ passed = Some(TRUE)
    /\ Len(articles) = 1
    /\ Words(Text(digest[1])) = MaxWords
    /\ HttpOccurrences(Text(digest[1])) = 1

(* C9: the issues list holds one entry for a word-count violation, one for a *)
(* citation violation and one per forbidden token present, in that order and *)
(* nothing else, so that its length is the number of violated checks (at     *)
(* most 6); passed is true iff the list is empty.                            *)
C9_OneIssuePerViolatedCheck ==
    Returned =>
        LET t == Text(digest[1])
            ranks == {IssueRank(issues[k]) : k \in 1..Len(issues)}
        IN  /\ \A a, b \in 1..Len(issues) :
                  a < b => IssueRank(issues[a]) < IssueRank(issues[b])
            /\ 1 \in ranks <=> LengthViolated(t)
            /\ 2 \in ranks <=> CitationViolated(t, Len(articles))
            /\ \A k \in 1..Len(ForbiddenTokens) :
                  (2 + k) \in ranks <=> k \in TokensPresent(t)
            /\ Len(issues) <= 2 + Len(ForbiddenTokens)
            /\ passed[1] <=> issues = <<>>

\* every check violated at once
C9_Witness ==
    /\ Returned
    /\ Len(issues) = 2 + Len(ForbiddenTokens)
    /\ passed = Some(FALSE)

====
